---- MODULE Spec2Model ----
(***************************************************************************)
(* Model of the evidence-retrieval and citation-grounded answering engine  *)
(* of off-the-dome: VectorStore (src/src/vector_store.py), QAChain         *)
(* (src/src/qa_chain.py), DocumentRetriever (src/src/retrieval.py) and     *)
(* DocumentProcessor (src/src/document_processor.py).                      *)
(*                                                                         *)
(* Strings are TLA+ strings, joined with \o as the code joins them.  A     *)
(* page_content is a record [body, len]: `len` characters of the text      *)
(* called `body`, so that a prefix of it is a record with a smaller len.   *)
(* The embedding service is a deterministic, opaque function: Similarity   *)
(* gives the similarity (in tenths) of a text to a question.  Every call   *)
(* of an external service (embedding, generation, file I/O) either         *)
(* succeeds or raises; the outcome is an input of the action.              *)
(***************************************************************************)
EXTENDS Integers, Sequences, FiniteSets, TLC

VARIABLES
  vector_db,   \* VectorStore.vector_db: the documents, in insertion order
  files,       \* the persist directory: file name -> [exists, data]
  chain,       \* QAChain.chain: "none" or "ready"; "unbuilt": no QAChain yet
  fresh,       \* the store was created on an empty directory, nothing added yet
  last         \* the last operation: its arguments, outcome and external calls

vars == <<vector_db, files, chain, fresh, last>>

-----------------------------------------------------------------------------
(* Bounds *)

MaxEntries == 4      \* entries in the in-memory index, placeholder included
MaxBatch == 2        \* chunks in one add_documents call
MaxK == 2            \* largest k a caller asks for

(* Program constants *)

MAX_DOCUMENTS == 5
SnippetLen == 200
similarity_threshold == 7

-----------------------------------------------------------------------------
(* Values *)

NoFile == [exists |-> FALSE, data |-> <<>>]
File(data) == [exists |-> TRUE, data |-> data]
NoValue == "NoValue"

INDEX_FAISS == "faiss_index.faiss"
INDEX_PKL == "faiss_index.pkl"
index_file == "faiss_index"
docs_file == "faiss_docs"
FileNames == {INDEX_FAISS, INDEX_PKL, index_file, docs_file}

\* the question asked; it matters only through Similarity
Question == "barriers to AI adoption"

Text(body, len) == [body |-> body, len |-> len]

EmptyMeta == [key \in {} |-> ""]

Document(page_content, metadata) ==
  [page_content |-> page_content, metadata |-> metadata]

PlaceholderDoc == Document(Text("Placeholder", 11), EmptyMeta)

Meta(source, title) ==
  [key \in {"source", "title"} |-> IF key = "source" THEN source ELSE title]

\* The chunks callers insert.  ChunkA and ChunkB differ in (source, title)
\* but not in source \o "_" \o title; ChunkB and ChunkC share (source, title),
\* ChunkC taking its title from the file name of its source.
ChunkA == Document(Text("t1", 250), Meta("x/a", "b_a_b") @@ ("year" :> 2019))
ChunkB == Document(Text("t2", 120), Meta("x/a_b", "a_b") @@ ("year" :> 2021))
ChunkC == Document(Text("t3", 300), [key \in {"source"} |-> "x/a_b"])
\* a chunk whose metadata holds source = None and no title
PyNone == "<None>"
ChunkE == Document(Text("t5", 10), [key \in {"source"} |-> PyNone])

Chunks == {ChunkA, ChunkB, ChunkC, ChunkE}

\* texts the generation service may return, and messages of the exceptions
\* the external services may raise
GenTexts == {"", "answer [Source: a_b]"}
Reasons == {"rate limit"}

\* cosine similarity, in tenths, of the embedding of a text to that of the
\* question
Similarity(question, page_content) ==
  CASE page_content.body = "t1" -> 9
    [] page_content.body = "t2" -> 8
    [] page_content.body = "t3" -> 3
    [] page_content.body = "t5" -> 3
    [] OTHER -> 1

-----------------------------------------------------------------------------
(* Helpers *)

Min(a, b) == IF a < b THEN a ELSE b

Range(seq) == {seq[i] : i \in 1..Len(seq)}

Take(seq, n) == SubSeq(seq, 1, Min(n, Len(seq)))

SeqsUpTo(S, n) == UNION {[1..m -> S] : m \in 0..n}

\* dict.get(key, default)
Get(metadata, key, default) ==
  IF key \in DOMAIN metadata THEN metadata[key] ELSE default

\* os.path.basename on the source strings of the model; it raises TypeError
\* on a value that is not a string
BasenameRaises(path) == path = PyNone

Basename(path) ==
  CASE path = "x/a" -> "a"
    [] path = "x/a_b" -> "a_b"
    [] path = "d/a.pdf" -> "a.pdf"
    [] path = "d/B.PDF" -> "B.PDF"
    [] path = "d/c.pdf" -> "c.pdf"
    [] path = "d/notes.txt" -> "notes.txt"
    [] OTHER -> path

\* str(x) as an f-string formats it
Str(x) == IF x = PyNone THEN "None" ELSE x

-----------------------------------------------------------------------------
(* FAISS, as the code uses it *)

\* FAISS.from_documents / add_documents: one entry per document, appended in
\* order; the position of an entry in the index identifies it
Append_docs(db, documents) == db \o documents

\* FAISS.save_local(folder, "faiss_index") writes <folder>/faiss_index.faiss
\* (the vectors) and <folder>/faiss_index.pkl (docstore and id map)
save_local(fs, db) ==
  [fs EXCEPT ![INDEX_FAISS] =
                File([i \in 1..Len(db) |-> db[i].page_content.body]),
             ![INDEX_PKL] = File(db)]

\* what a file holds when the process dies while writing data to it: the
\* first n entries, and no end
TornFile(data, n) == [exists |-> TRUE, data |-> Take(data, n), torn |-> TRUE]

IsTorn(file) == "torn" \in DOMAIN file

\* save_local cut short by the death of the process: while faiss.write_index
\* writes the vectors ("faiss"), after it and before the pickle file is opened
\* ("between"), or while pickle.dump writes the docstore ("pkl")
CrashPoints == {"faiss", "between", "pkl"}

save_local_crash(fs, db, point, n) ==
  LET whole == save_local(fs, db)
  IN CASE point = "faiss" ->
            [fs EXCEPT ![INDEX_FAISS] = TornFile(whole[INDEX_FAISS].data, n)]
       [] point = "between" ->
            [fs EXCEPT ![INDEX_FAISS] = whole[INDEX_FAISS]]
       [] point = "pkl" ->
            [whole EXCEPT ![INDEX_PKL] = TornFile(db, n)]

\* FAISS.load_local can read the directory: both files are there, whole, and
\* hold the same entries
Loadable(fs) ==
  /\ fs[INDEX_FAISS].exists /\ ~IsTorn(fs[INDEX_FAISS])
  /\ fs[INDEX_PKL].exists /\ ~IsTorn(fs[INDEX_PKL])
  /\ Len(fs[INDEX_FAISS].data) = Len(fs[INDEX_PKL].data)

\* FAISS.load_local(folder, embeddings, "faiss_index") reads the same two files
load_local(fs) == fs[INDEX_PKL].data

\* the documents of db in the order of descending similarity to the question,
\* from the given level of similarity down; equally similar documents stay in
\* insertion order
RECURSIVE Nearest(_, _, _)
Nearest(db, question, level) ==
  IF level < 0
  THEN <<>>
  ELSE LET AtLevel(doc) == Similarity(question, doc.page_content) = level
       IN SelectSeq(db, AtLevel) \o Nearest(db, question, level - 1)

\* FAISS.similarity_search(query, k): the k nearest documents, nearest first
faiss_search(db, question, k) == Take(Nearest(db, question, 10), k)

-----------------------------------------------------------------------------
(* VectorStore *)

\* the outcome of an operation, as the caller and the environment see it
Outcome(op, arg, pre, raised, ret, calls) ==
  [op |-> op, arg |-> arg, pre |-> pre, raised |-> raised, ret |-> ret,
   calls |-> calls]

\* VectorStore.__init__: load the persisted index when both index_file and
\* docs_file exist, else create one from a placeholder document and save it;
\* a load that raises leaves a placeholder index in memory and nothing saved
VectorStore_init(fs, loadOk) ==
  LET created == Append_docs(<<>>, <<PlaceholderDoc>>)
  IN IF fs[index_file].exists /\ fs[docs_file].exists
     THEN IF loadOk /\ Loadable(fs)
          THEN [vector_db |-> load_local(fs), files |-> fs, created |-> FALSE]
          ELSE [vector_db |-> created, files |-> fs, created |-> FALSE]
     ELSE [vector_db |-> created, files |-> save_local(fs, created),
           created |-> TRUE]

KeyOrder == <<"source", "title", "year">>

\* list(metadata.keys())
KeysList(metadata) ==
  LET Present(key) == key \in DOMAIN metadata
  IN SelectSeq(KeyOrder, Present)

\* VectorStore.get_collection_stats
get_collection_stats(db) ==
  LET doc_count == Len(db)
  IN [count |-> doc_count,
      metadata_keys |-> IF doc_count > 0
                        THEN KeysList(db[1].metadata)
                        ELSE <<>>]

\* VectorStore.similarity_search: an error of the search is caught and
\* becomes the empty list
similarity_search(db, question, k, embedOk) ==
  IF embedOk THEN faiss_search(db, question, k) ELSE <<>>

\* add_documents that replaces the entries of the sources of the batch
add_documents_db_replace(db, documents, embedOk) ==
  LET Sources == {Get(documents[i].metadata, "source", "Unknown") :
                    i \in 1..Len(documents)}
      Kept(doc) == Get(doc.metadata, "source", "Unknown") \notin Sources
  IN IF Len(documents) > 0 /\ embedOk
     THEN Append_docs(SelectSeq(db, Kept), documents)
     ELSE db

\* add_documents that skips the documents the index already holds (an upsert)
add_documents_db_upsert(db, documents, embedOk) ==
  LET IsNew(doc) == doc \notin Range(db)
  IN IF Len(documents) > 0 /\ embedOk
     THEN Append_docs(db, SelectSeq(documents, IsNew))
     ELSE db

\* VectorStore.add_documents, the index it leaves in memory
add_documents_db(db, documents, embedOk) ==
  IF Len(documents) > 0 /\ embedOk
  THEN Append_docs(db, documents)
  ELSE db

\* VectorStore.add_documents, the directory it leaves on disk
add_documents_files(fs, db, documents, embedOk, saveOk) ==
  IF Len(documents) > 0 /\ embedOk /\ saveOk
  THEN save_local(fs, add_documents_db(db, documents, embedOk))
  ELSE fs

-----------------------------------------------------------------------------
(* QAChain *)

SentinelAnswer ==
  "QA system not fully initialized. Please check your API key configuration."

TypeErrorText == "expected str, bytes or os.PathLike object, not NoneType"

\* QAChain.__init__: the chain exists only when OPENAI_API_KEY is set
QAChain_init(apiKey) == IF apiKey THEN "ready" ELSE "none"

\* f"{source}_{title}"
source_id(source, title) == Str(source) \o "_" \o Str(title)

\* doc.page_content[:200] + "..."
Snippet(page_content) ==
  [body |-> page_content.body, len |-> Min(page_content.len, SnippetLen),
   suffix |-> "..."]

Citation(title, source, page_content) ==
  [title |-> title, source |-> source, snippet |-> Snippet(page_content)]

\* the loop of answer_question over source_docs[i..]: sources and
\* seen_sources so far; it raises where os.path.basename does
RECURSIVE ExtractSources(_, _, _, _)
ExtractSources(source_docs, i, sources, seen_sources) ==
  IF i > Len(source_docs)
  THEN [raised |-> FALSE, sources |-> sources]
  ELSE LET doc == source_docs[i]
           source == Get(doc.metadata, "source", "Unknown")
           needsDefault == "title" \notin DOMAIN doc.metadata
       IN IF needsDefault /\ BasenameRaises(source)
          THEN [raised |-> TRUE, sources |-> sources]
          ELSE LET title == Get(doc.metadata, "title", Basename(source))
                   id == source_id(source, title)
               IN IF id \notin seen_sources
                  THEN ExtractSources(source_docs, i + 1,
                         Append(sources, Citation(title, source, doc.page_content)),
                         seen_sources \cup {id})
                  ELSE ExtractSources(source_docs, i + 1, sources, seen_sources)

ErrorAnswer(reason) == "An error occurred: " \o reason

Result(answer, sources) == [answer |-> answer, sources |-> sources]

\* what answer_question did: whether an exception left it, what it returned,
\* the external calls it made ("!": the call raised) and the documents its
\* citation search returned
Answered(raised, ret, calls, docs) ==
  [raised |-> raised, ret |-> ret, calls |-> calls, docs |-> docs]

\* an except clause that returns the citations built before the exception
answer_with_chain_keeping(db, question, env) ==
  IF ~env.retrieverOk
  THEN Answered(FALSE, Result(ErrorAnswer(env.reason), <<>>), <<"retriever!">>,
                <<>>)
  ELSE IF ~env.llmOk
  THEN Answered(FALSE, Result(ErrorAnswer(env.reason), <<>>),
                <<"retriever", "llm!">>, <<>>)
  ELSE LET source_docs ==
             similarity_search(db, question, MAX_DOCUMENTS, env.searchOk)
           extracted == ExtractSources(source_docs, 1, <<>>, {})
           search == IF env.searchOk THEN "search" ELSE "search!"
       IN IF extracted.raised
          THEN Answered(FALSE,
                        Result(ErrorAnswer(TypeErrorText), extracted.sources),
                        <<"retriever", "llm", search, "basename!">>, source_docs)
          ELSE Answered(FALSE, Result(env.text, extracted.sources),
                        <<"retriever", "llm", search>>, source_docs)

\* the try block of answer_question and its except clause.  env tells how
\* the external calls end: retrieverOk, llmOk, searchOk, whether the retrieval
\* inside the chain, the generation call and the embedding of the citation
\* search succeed; text, what the generation service returns; reason, the
\* message of the exception a failing call raises.
answer_with_chain(db, question, env) ==
  IF ~env.retrieverOk
  THEN Answered(FALSE, Result(ErrorAnswer(env.reason), <<>>), <<"retriever!">>,
                <<>>)
  ELSE IF ~env.llmOk
  THEN Answered(FALSE, Result(ErrorAnswer(env.reason), <<>>),
                <<"retriever", "llm!">>, <<>>)
  ELSE LET source_docs ==
             similarity_search(db, question, MAX_DOCUMENTS, env.searchOk)
           extracted == ExtractSources(source_docs, 1, <<>>, {})
           search == IF env.searchOk THEN "search" ELSE "search!"
       IN IF extracted.raised
          THEN Answered(FALSE, Result(ErrorAnswer(TypeErrorText), <<>>),
                        <<"retriever", "llm", search, "basename!">>, source_docs)
          ELSE Answered(FALSE, Result(env.text, extracted.sources),
                        <<"retriever", "llm", search>>, source_docs)

\* answer_question without the test of self.chain
answer_question_unguarded(db, chainv, question, env) ==
  answer_with_chain(db, question, env)

\* QAChain.answer_question
answer_question(db, chainv, question, env) ==
  IF chainv = "none"
  THEN Answered(FALSE, Result(SentinelAnswer, <<>>), <<>>, <<>>)
  ELSE answer_with_chain(db, question, env)

-----------------------------------------------------------------------------
(* DocumentRetriever *)

\* fetch_k of FAISS.similarity_search, the candidates a filtered search ranks
fetch_k == 20

\* EmbeddingsFilter(similarity_threshold=0.7).compress_documents
EmbeddingsFilter(docs, question) ==
  LET SimilarEnough(doc) ==
        Similarity(question, doc.page_content) > similarity_threshold
  IN SelectSeq(docs, SimilarEnough)

\* base_retriever.get_relevant_documents: as_retriever(k = MAX_DOCUMENTS)
base_retriever(db, question) == faiss_search(db, question, MAX_DOCUMENTS)

\* retriever.get_relevant_documents: the base retriever, then the filter
compression_retriever(db, question) ==
  EmbeddingsFilter(base_retriever(db, question), question)

Returned(ret, calls) == [raised |-> FALSE, ret |-> ret, calls |-> calls]
Raised(calls) == [raised |-> TRUE, ret |-> <<>>, calls |-> calls]

\* retrieve_documents that takes an empty filtered result for a failure and
\* falls back to the base retriever
retrieve_documents_nonempty(db, question, k, env) ==
  IF env.compressionOk /\ compression_retriever(db, question) # <<>>
  THEN Returned(compression_retriever(db, question), <<"compression">>)
  ELSE IF env.baseOk
  THEN Returned(base_retriever(db, question),
                <<IF env.compressionOk THEN "compression" ELSE "compression!",
                  "base">>)
  ELSE Raised(<<"compression!", "base!">>)

\* DocumentRetriever.retrieve_documents.  env tells how the external calls
\* end: filteredOk, compressionOk, baseOk, whether the metadata-filtered
\* retriever, the compression retriever and the base retriever of the fallback
\* succeed.
retrieve_documents(db, question, k, env) ==
  IF env.compressionOk
  THEN Returned(compression_retriever(db, question), <<"compression">>)
  ELSE IF env.baseOk
  THEN Returned(base_retriever(db, question), <<"compression!", "base">>)
  ELSE Raised(<<"compression!", "base!">>)

\* Optional[int]
None == <<>>
Some(x) == <<x>>

\* the filter_dict of retrieve_by_recency: {"year": {"$gte": .., "$lte": ..}};
\* years are four-digit, so that comparing str(year) compares the numbers
YearFilter(min_year, max_year) ==
  LET gte == IF min_year # None THEN ("$gte" :> min_year[1]) ELSE <<>>
      lte == IF max_year # None THEN ("$lte" :> max_year[1]) ELSE <<>>
  IN IF min_year = None /\ max_year = None
     THEN <<>>
     ELSE ("year" :> (IF min_year = None THEN lte
                      ELSE IF max_year = None THEN gte
                      ELSE gte @@ lte))

\* a document passes a filter_dict
Matches(doc, filter_dict) ==
  \A key \in DOMAIN filter_dict :
    /\ key \in DOMAIN doc.metadata
    /\ \A op \in DOMAIN filter_dict[key] :
         IF op = "$gte" THEN doc.metadata[key] >= filter_dict[key][op]
                        ELSE doc.metadata[key] <= filter_dict[key][op]

\* FAISS.similarity_search(query, k, filter): of the fetch_k nearest, the
\* first k that pass the filter
faiss_search_filtered(db, question, k, filter_dict) ==
  LET Passes(doc) == Matches(doc, filter_dict)
  IN Take(SelectSeq(faiss_search(db, question, fetch_k), Passes), k)

\* DocumentRetriever.retrieve_with_metadata_filter
retrieve_with_metadata_filter(db, question, filter_dict, k, env) ==
  IF env.filteredOk
  THEN Returned(Take(faiss_search_filtered(db, question, k * 2, filter_dict), k),
                <<"filtered">>)
  ELSE LET r == retrieve_documents(db, question, k, env)
       IN [r EXCEPT !.calls = <<"filtered!">> \o r.calls]

\* DocumentRetriever.retrieve_by_recency
retrieve_by_recency(db, question, min_year, max_year, k, env) ==
  LET filter_dict == YearFilter(min_year, max_year)
  IN IF filter_dict # <<>>
     THEN retrieve_with_metadata_filter(db, question, filter_dict, k, env)
     ELSE retrieve_documents(db, question, k, env)

-----------------------------------------------------------------------------
(* Actions *)

Batches == SeqsUpTo(Chunks, MaxBatch)
RetrieverBatches == SeqsUpTo({ChunkA, ChunkB, ChunkE}, MaxBatch)

Ks == 1..MaxK

Years == {2020}
OptionalYears == {None} \cup {Some(y) : y \in Years}
FilterDicts == {YearFilter(a, b) : a \in OptionalYears, b \in OptionalYears} \ {<<>>}

Count == get_collection_stats(vector_db).count

\* the application has built its VectorStore on an empty directory
\* (initialize_components, before the QAChain is built)
Init ==
  LET store == VectorStore_init([name \in FileNames |-> NoFile], TRUE)
  IN /\ vector_db = store.vector_db
     /\ files = store.files
     /\ fresh = TRUE
     /\ chain = "unbuilt"
     /\ last = Outcome("init", NoValue, 0, FALSE, NoValue, <<>>)

\* a new process builds a VectorStore on the same directory
Restart ==
  \E loadOk \in BOOLEAN :
    LET store == VectorStore_init(files, loadOk)
    IN /\ vector_db' = store.vector_db
       /\ files' = store.files
       /\ fresh' = (store.created /\ ~files[INDEX_FAISS].exists
                                 /\ ~files[INDEX_PKL].exists)
       /\ chain' = "unbuilt"
       /\ last' = Outcome("init", NoValue, Count, FALSE, NoValue, <<>>)

\* initialize_components builds the QAChain over the VectorStore
NewQAChain ==
  \E apiKey \in BOOLEAN :
    /\ chain = "unbuilt"
    /\ chain' = QAChain_init(apiKey)
    /\ last' = Outcome("QAChain", NoValue, Count, FALSE, NoValue, <<>>)
    /\ UNCHANGED <<vector_db, files, fresh>>

\* add_documents with a batch of the given ones and a save that ends as one
\* of saveOutcomes
AddDocumentsOf(batches, saveOutcomes) ==
  \E documents \in batches, embedOk \in BOOLEAN, saveOk \in saveOutcomes :
    /\ Len(vector_db) + Len(documents) <= MaxEntries
    /\ (Len(documents) = 0 \/ ~embedOk) => saveOk
    /\ vector_db' = add_documents_db(vector_db, documents, embedOk)
    /\ files' = add_documents_files(files, vector_db, documents, embedOk,
                                    saveOk)
    /\ fresh' = (fresh /\ vector_db' = vector_db)
    /\ last' = Outcome("add_documents", [m |-> Len(documents)], Count, FALSE,
                       NoValue,
                       IF Len(documents) = 0 THEN <<>>
                       ELSE IF ~embedOk THEN <<"embed!">>
                       ELSE IF ~saveOk THEN <<"embed", "save!">>
                       ELSE <<"embed", "save">>)
    /\ UNCHANGED chain

AddDocuments == AddDocumentsOf(Batches, BOOLEAN)

\* add_documents as the retriever's specifications see it: the chunks differ
\* in similarity and year, and the save succeeds
AddRetrievable == AddDocumentsOf(RetrieverBatches, {TRUE})

GetCollectionStats ==
  /\ last' = Outcome("get_collection_stats", NoValue, Count, FALSE,
                     get_collection_stats(vector_db), <<>>)
  /\ UNCHANGED <<vector_db, files, chain, fresh>>

SimilaritySearch ==
  \E k \in Ks, embedOk \in BOOLEAN :
    /\ last' = Outcome("similarity_search", [k |-> k], Count, FALSE,
                       similarity_search(vector_db, Question, k, embedOk),
                       IF embedOk THEN <<"embed">> ELSE <<"embed!">>)
    /\ UNCHANGED <<vector_db, files, chain, fresh>>

\* the outcomes of the external calls of one answer_question; a call that
\* is not reached has no outcome to choose
AnswerEnvs ==
  {e \in [retrieverOk : BOOLEAN, llmOk : BOOLEAN, searchOk : BOOLEAN,
          text : GenTexts, reason : Reasons] :
     /\ ~e.retrieverOk => e.llmOk
     /\ ~(e.retrieverOk /\ e.llmOk) => (e.searchOk /\ e.text = "")}

AnswerQuestion ==
  \E e \in AnswerEnvs :
    LET r == answer_question(vector_db, chain, Question, e)
    IN /\ chain # "unbuilt"
       /\ last' = Outcome("answer_question", [docs |-> r.docs], Count,
                          r.raised, r.ret, r.calls)
       /\ UNCHANGED <<vector_db, files, chain, fresh>>

\* the outcomes of the external calls of one retrieval
RetrieveEnvs ==
  {e \in [filteredOk : BOOLEAN, compressionOk : BOOLEAN, baseOk : BOOLEAN] :
     /\ e.filteredOk => e.compressionOk
     /\ e.compressionOk => e.baseOk}

RetrieveDocuments ==
  \E k \in Ks, e \in RetrieveEnvs :
    LET r == retrieve_documents(vector_db, Question, k, e)
    IN /\ ~e.filteredOk
       /\ last' = Outcome("retrieve_documents", [k |-> k], Count, r.raised,
                          r.ret, r.calls)
       /\ UNCHANGED <<vector_db, files, chain, fresh>>

RetrieveWithMetadataFilter ==
  \E k \in Ks, filter_dict \in FilterDicts, e \in RetrieveEnvs :
    LET r == retrieve_with_metadata_filter(vector_db, Question, filter_dict, k,
                                           e)
    IN /\ last' = Outcome("retrieve_with_metadata_filter",
                          [k |-> k, filter |-> filter_dict], Count, r.raised,
                          r.ret, r.calls)
       /\ UNCHANGED <<vector_db, files, chain, fresh>>

RetrieveByRecency ==
  \E k \in Ks, min_year \in OptionalYears, max_year \in OptionalYears,
     e \in RetrieveEnvs :
    LET r == retrieve_by_recency(vector_db, Question, min_year, max_year, k, e)
    IN /\ (min_year = None /\ max_year = None) => ~e.filteredOk
       /\ last' = Outcome("retrieve_by_recency",
                          [k |-> k, filter |-> YearFilter(min_year, max_year)],
                          Count, r.raised, r.ret, r.calls)
       /\ UNCHANGED <<vector_db, files, chain, fresh>>

\* the vector store
Next ==
  \/ Restart
  \/ AddDocuments
  \/ GetCollectionStats
  \/ SimilaritySearch

Spec == Init /\ [][Next]_vars

\* the answer assembler over the vector store
NextQA ==
  \/ Restart
  \/ NewQAChain
  \/ AddDocuments
  \/ AnswerQuestion

SpecQA == Init /\ [][NextQA]_vars

\* the retriever over the vector store
NextRetriever ==
  \/ AddRetrievable
  \/ RetrieveDocuments
  \/ RetrieveWithMetadataFilter

SpecRetriever == Init /\ [][NextRetriever]_vars

\* retrieval by publication year over the vector store
NextRecency ==
  \/ AddRetrievable
  \/ RetrieveByRecency

SpecRecency == Init /\ [][NextRecency]_vars

-----------------------------------------------------------------------------
(* Claims about the vector store, under Spec *)

EmptyStats == [count |-> 0, metadata_keys |-> <<>>]

\* C1: on a freshly created index (a VectorStore built on a directory with no
\* persisted index, before any add_documents), get_collection_stats() returns
\* exactly {count: 0, metadata_keys: []}.
C1_FreshStatsAreEmpty ==
  (fresh /\ last.op = "get_collection_stats") => last.ret = EmptyStats

\* C2: after add_documents(batch) returns on an index of count n, with a batch
\* of m >= 0 chunks, get_collection_stats().count = n + m.
C2_CountIsPriorPlusBatch ==
  last.op = "add_documents" => Count = last.pre + last.arg.m

\* C2, amended: after add_documents(batch) returns, the count is n + m when
\* the batch was embedded (whether or not the save that follows succeeded),
\* and n when the embedding call raised.
C2_CountIsPriorPlusEmbeddedBatch ==
  last.op = "add_documents" =>
    Count = IF "embed!" \in Range(last.calls) THEN last.pre
                                              ELSE last.pre + last.arg.m

\* a batch of two chunks has been embedded, appended and saved
C2_Witness ==
  /\ last.op = "add_documents"
  /\ last.arg.m = 2
  /\ last.calls = <<"embed", "save">>
  /\ Count = last.pre + 2

\* the entries of the persisted index
Persisted == files[INDEX_PKL].data

\* C3: over any sequence of add_documents calls and restarts the number of
\* entries never decreases: every entry persisted by a completed
\* add_documents is still persisted, and is in the index of (and counted by)
\* a VectorStore built later on that directory.
C3_PersistedEntriesSurvive ==
  [][/\ Len(Persisted') >= Len(Persisted)
     /\ \A i \in 1..Len(Persisted) : Persisted'[i] = Persisted[i]
     /\ last'.op = "init" =>
          /\ get_collection_stats(vector_db').count >= Len(Persisted)
          /\ \A i \in 1..Len(Persisted) : vector_db'[i] = Persisted[i]]_vars

-----------------------------------------------------------------------------
(* Claims about the answer assembler, under SpecQA *)

\* answer_question returned the generated text with the citations it built
Assembled ==
  /\ last.op = "answer_question"
  /\ ~last.raised
  /\ last.calls \in {<<"retriever", "llm", "search">>,
                      <<"retriever", "llm", "search!">>}

\* the (source, title) pair answer_question cites a document under
PairOf(doc) ==
  LET source == Get(doc.metadata, "source", "Unknown")
  IN <<source, Get(doc.metadata, "title", Basename(source))>>

\* the citations of sources for a (source, title) pair
CitationsOf(sources, pair) ==
  {i \in 1..Len(sources) : <<sources[i].source, sources[i].title>> = pair}

\* the first of docs with a (source, title) pair
FirstWith(docs, pair) ==
  docs[CHOOSE i \in 1..Len(docs) :
         /\ PairOf(docs[i]) = pair
         /\ \A j \in 1..(i - 1) : PairOf(docs[j]) # pair]

\* C4: when two or more of the retrieved chunks share a (source, title),
\* sources holds exactly one citation for that pair, and its snippet is that of
\* the first such chunk in retrieval order.
C4_OneCitationPerSharedPair ==
  Assembled =>
    \A i, j \in 1..Len(last.arg.docs) :
      (i < j /\ PairOf(last.arg.docs[i]) = PairOf(last.arg.docs[j])) =>
        LET pair == PairOf(last.arg.docs[i])
            cited == CitationsOf(last.ret.sources, pair)
        IN /\ Cardinality(cited) = 1
           /\ \A c \in cited :
                last.ret.sources[c].snippet
                  = Snippet(FirstWith(last.arg.docs, pair).page_content)

\* C5: when no generation service is configured (chain is None),
\* answer_question returns the sentinel answer and no sources, does not raise,
\* calls neither the generation service nor the index, and leaves the index
\* as it was.
C5_SentinelWithoutChain ==
  [][(chain = "none" /\ last'.op = "answer_question") =>
       /\ ~last'.raised
       /\ last'.ret = Result(SentinelAnswer, <<>>)
       /\ last'.calls = <<>>
       /\ vector_db' = vector_db
       /\ files' = files]_vars

\* a question was answered by a QAChain that has no chain, over an index that
\* holds a chunk
C5_Witness ==
  /\ chain = "none"
  /\ last.op = "answer_question"
  /\ last.ret.answer = SentinelAnswer
  /\ Len(vector_db) > 1

\* C6: on every path of answer_question, sources is a list and answer is a
\* non-empty string.
C6_AnswerIsNonEmpty ==
  last.op = "answer_question" =>
    /\ ~last.raised
    /\ DOMAIN last.ret.sources = 1..Len(last.ret.sources)
    /\ last.ret.answer # ""

ErrorAnswers == {ErrorAnswer(reason) : reason \in Reasons \cup {TypeErrorText}}

\* C7: an exception of the generation call or of the citation retrieval
\* never leaves answer_question: a failure of the chain yields an answer that
\* embeds the reason and an empty source list, a failed citation search
\* yields no sources, and citations built before an exception are discarded.
C7_FailuresBecomeAnswers ==
  last.op = "answer_question" =>
    /\ ~last.raised
    /\ ("retriever!" \in Range(last.calls) \/ "llm!" \in Range(last.calls)) =>
         /\ last.ret.answer \in {ErrorAnswer(reason) : reason \in Reasons}
         /\ last.ret.sources = <<>>
    /\ "basename!" \in Range(last.calls) =>
         last.ret = Result(ErrorAnswer(TypeErrorText), <<>>)
    /\ "search!" \in Range(last.calls) => last.ret.sources = <<>>

\* the citation loop raised after it had built the citation of ChunkB
C7_Witness ==
  /\ last.op = "answer_question"
  /\ "basename!" \in Range(last.calls)
  /\ last.arg.docs[1] = ChunkB
  /\ last.ret.answer \in ErrorAnswers

\* C10: sources holds citations only of chunks whose similarity to the
\* question meets the similarity threshold (of the inserted chunks; the
\* placeholder entry is not one).
C10_SourcesMeetThreshold ==
  Assembled =>
    \A i \in 1..Len(last.arg.docs) :
      LET doc == last.arg.docs[i]
      IN (/\ doc \in Chunks
          /\ \E c \in 1..Len(last.ret.sources) :
               /\ <<last.ret.sources[c].source, last.ret.sources[c].title>>
                    = PairOf(doc)
               /\ last.ret.sources[c].snippet = Snippet(doc.page_content))
         => Similarity(Question, doc.page_content) >= similarity_threshold

-----------------------------------------------------------------------------
(* Claims about the retriever, under SpecRetriever *)

RetrievalOps ==
  {"retrieve_documents", "retrieve_with_metadata_filter",
   "retrieve_by_recency", "similarity_search"}

\* C8: when the relevance-filtered (compression) path fails,
\* retrieve_documents neither raises nor returns empty: it returns the
\* unfiltered result of the base retriever; so does
\* retrieve_with_metadata_filter when it falls back through retrieve_documents.
C8_FallbackReturnsBaseResult ==
  (/\ last.op \in {"retrieve_documents", "retrieve_with_metadata_filter"}
   /\ "compression!" \in Range(last.calls)) =>
    /\ ~last.raised
    /\ last.ret # <<>>
    /\ last.ret = base_retriever(vector_db, Question)

\* C9: every retrieval operation called with a requested k returns at most k
\* documents, on the normal path and on every fallback path.
C9_AtMostK ==
  (last.op \in RetrievalOps /\ ~last.raised) => Len(last.ret) <= last.arg.k

-----------------------------------------------------------------------------
(* The placeholder entry and the statistics, under Spec *)

\* the citation answer_question builds for the placeholder entry
PlaceholderCitation ==
  Citation(PairOf(PlaceholderDoc)[2], PairOf(PlaceholderDoc)[1],
           PlaceholderDoc.page_content)

\* C11: the placeholder entry created when the index is initialised is never
\* returned by similarity_search and never cited in the sources of
\* answer_question, for any index state and any k; a search on a fresh index
\* returns the empty list.
C11_PlaceholderIsNeverReturned ==
  /\ last.op = "similarity_search" =>
       /\ PlaceholderDoc \notin Range(last.ret)
       /\ fresh => last.ret = <<>>
  /\ last.op = "answer_question" =>
       PlaceholderCitation \notin Range(last.ret.sources)

\* the metadata field names that occur on at least one entry of db
ObservedKeys(db) == UNION {DOMAIN db[i].metadata : i \in 1..Len(db)}

\* C13: get_collection_stats().metadata_keys is the set of the metadata field
\* names that occur on at least one entry of the index, and is empty when the
\* index is empty.
C13_MetadataKeysAreTheUnion ==
  last.op = "get_collection_stats" =>
    Range(last.ret.metadata_keys) = ObservedKeys(vector_db)

\* C18: when an I/O or embedding error occurs inside add_documents (while
\* the batch is embedded and appended, or in the save that follows), the call
\* is a no-op: it does not raise, and the in-memory index and the persisted
\* index hold exactly what they held before the call.
C18_FailedInsertIsNoOp ==
  [][(/\ last'.op = "add_documents"
      /\ \/ "embed!" \in Range(last'.calls)
         \/ "save!" \in Range(last'.calls)) =>
       /\ ~last'.raised
       /\ vector_db' = vector_db
       /\ files' = files]_vars

\* C21: the index is append-only: add_documents leaves the identifier
\* (position), text and metadata of every entry already in the index
\* unchanged, and a batch that is inserted adds one new entry for each of its
\* chunks, also when its source is already in the index (duplicates, no
\* upsert); nothing is replaced or merged.
C21_AppendOnly ==
  [][last'.op = "add_documents" =>
       /\ Len(vector_db') >= Len(vector_db)
       /\ \A i \in 1..Len(vector_db) : vector_db'[i] = vector_db[i]
       /\ \A i \in (Len(vector_db) + 1)..Len(vector_db') :
            vector_db'[i] \in Chunks
       /\ "embed" \in Range(last'.calls) =>
            Len(vector_db') = Len(vector_db) + last'.arg.m
       /\ "embed" \notin Range(last'.calls) => vector_db' = vector_db]_vars

\* a batch was inserted that holds a chunk the index already held, and the
\* index now holds that chunk twice
C21_Witness ==
  /\ last.op = "add_documents"
  /\ "embed" \in Range(last.calls)
  /\ \E i, j \in 1..Len(vector_db) :
       /\ i <= last.pre /\ last.pre < j
       /\ vector_db[i] = vector_db[j]

-----------------------------------------------------------------------------
(* The persist directory across crashes and restarts, under SpecDisk *)

EmptyDir == [name \in FileNames |-> NoFile]

\* a directory that holds the two files __init__ looks for
MarkedDir ==
  [name \in FileNames |->
     IF name \in {index_file, docs_file} THEN File(<<>>) ELSE NoFile]

Dirs == {EmptyDir, MarkedDir}

\* the application has built its VectorStore on one of the directories
InitDisk ==
  \E dir \in Dirs, loadOk \in BOOLEAN :
    LET store == VectorStore_init(dir, loadOk)
    IN /\ vector_db = store.vector_db
       /\ files = store.files
       /\ fresh = (dir = EmptyDir)
       /\ chain = "unbuilt"
       /\ last = Outcome("init", NoValue, 0, FALSE, NoValue, <<>>)

\* a process holds the VectorStore
Running == last.op # "crash"

\* the batches inserted where only the order and number of entries matter
DiskBatches == SeqsUpTo({ChunkA, ChunkB}, MaxBatch)

AddDocumentsRunning == Running /\ AddDocumentsOf(DiskBatches, BOOLEAN)

\* the process dies inside the save_local of add_documents; its memory is gone
CrashInSave ==
  \E documents \in DiskBatches, point \in CrashPoints, n \in 0..MaxEntries :
    LET db == add_documents_db(vector_db, documents, TRUE)
    IN /\ Running
       /\ Len(documents) > 0
       /\ Len(db) <= MaxEntries
       /\ n < Len(db)
       /\ point = "between" => n = 0
       /\ vector_db' = <<>>
       /\ files' = save_local_crash(files, db, point, n)
       /\ fresh' = FALSE
       /\ chain' = "unbuilt"
       /\ last' = Outcome("crash", [m |-> Len(documents)], Count, TRUE, NoValue,
                          <<"embed", "save!">>)

NextDisk ==
  \/ Restart
  \/ AddDocumentsRunning
  \/ CrashInSave

SpecDisk == InitDisk /\ [][NextDisk]_vars

\* the entries a file of the directory holds
EntriesOf(name) == files[name].data

\* C12: if the process crashes at any point of the persist step of
\* add_documents, the on-disk index afterwards still holds every entry that
\* earlier completed inserts persisted, and its vector file and its docstore
\* file hold the same entries; at most the batch in flight is lost.
C12_CrashKeepsCommittedEntries ==
  [][last'.op = "crash" =>
       /\ ~IsTorn(files'[INDEX_FAISS]) /\ ~IsTorn(files'[INDEX_PKL])
       /\ Len(EntriesOf(INDEX_PKL)') >= Len(EntriesOf(INDEX_PKL))
       /\ \A i \in 1..Len(EntriesOf(INDEX_PKL)) :
            EntriesOf(INDEX_PKL)'[i] = EntriesOf(INDEX_PKL)[i]
       /\ Len(EntriesOf(INDEX_FAISS)') = Len(EntriesOf(INDEX_PKL)')]_vars

\* C19: whenever the construction of a VectorStore completes, whether no
\* persisted index existed or the persisted one failed to load, the index in
\* memory is also the index on disk: a fresh index is persisted immediately.
C19_ConstructionPersistsTheIndex ==
  last.op = "init" =>
    /\ Loadable(files)
    /\ load_local(files) = vector_db

-----------------------------------------------------------------------------
(* Deduplication of citations, under SpecQA *)

\* the positions of docs that hold the first chunk of their (source, title)
FirstSeen(docs) ==
  {i \in 1..Len(docs) : \A j \in 1..(i - 1) : PairOf(docs[j]) # PairOf(docs[i])}

\* the (source, title) pairs of docs, each once, in first-seen order
RECURSIVE PairsInOrder(_, _)
PairsInOrder(docs, i) ==
  IF i > Len(docs)
  THEN <<>>
  ELSE (IF i \in FirstSeen(docs) THEN <<PairOf(docs[i])>> ELSE <<>>)
         \o PairsInOrder(docs, i + 1)

\* C17: citations are deduplicated by the (source, title) pair: retrieved
\* chunks whose pairs differ yield separate citations, in first-seen retrieval
\* order, whatever the strings are ('_' in them included).
C17_DistinctPairsAreCitedApart ==
  Assembled =>
    [c \in 1..Len(last.ret.sources) |->
       <<last.ret.sources[c].source, last.ret.sources[c].title>>]
      = PairsInOrder(last.arg.docs, 1)

-----------------------------------------------------------------------------
(* The empty filtered result, under SpecRetriever *)

\* the relevance filter leaves nothing of what the base retriever finds
FilterRemovesAll ==
  EmbeddingsFilter(base_retriever(vector_db, Question), Question) = <<>>

\* C20: when the relevance filter succeeds but removes all results,
\* retrieve_documents returns the empty sequence as a normal result: it does
\* not raise and does not fall back to the base retriever; the fallback is
\* taken only when the filtered path throws.
C20_EmptyResultIsNotAFailure ==
  last.op = "retrieve_documents" =>
    /\ (last.calls[1] = "compression" /\ FilterRemovesAll) =>
         /\ ~last.raised
         /\ last.ret = <<>>
         /\ last.calls = <<"compression">>
    /\ (\E c \in 1..Len(last.calls) : last.calls[c] \in {"base", "base!"}) =>
         last.calls[1] = "compression!"

\* the index holds a chunk besides the placeholder, the filter ran and
\* removed everything, and retrieve_documents returned the empty list
C20_Witness ==
  /\ last.op = "retrieve_documents"
  /\ Len(vector_db) > 1
  /\ FilterRemovesAll
  /\ last.calls = <<"compression">>
  /\ last.ret = <<>>
  /\ ~last.raised

-----------------------------------------------------------------------------
(* Retrieval by publication year, under SpecRecency *)

\* C15: retrieve_by_recency with at least one bound given returns at most k
\* chunks, each with a metadata year within the requested range; no chunk
\* outside the range or without a year is returned on any path, the fallback
\* taken when the filtered retrieval fails included.
C15_RecencyKeepsTheRange ==
  (/\ last.op = "retrieve_by_recency"
   /\ last.arg.filter # <<>>
   /\ ~last.raised) =>
    /\ Len(last.ret) <= last.arg.k
    /\ \A i \in 1..Len(last.ret) :
         /\ "year" \in DOMAIN last.ret[i].metadata
         /\ Matches(last.ret[i], last.arg.filter)

-----------------------------------------------------------------------------
(* DocumentProcessor: the text splitter *)

CHUNK_SIZE == 1000
CHUNK_OVERLAP == 200

MaxParagraphs == 3    \* paragraphs of a text
MaxSentences == 2     \* sentences of a paragraph

\* A text is a sequence of paragraphs (parted by "\n\n"), a paragraph a
\* sequence of sentences (parted by "."), a sentence a number of characters,
\* the separator that precedes it included (keep_separator).  No sentence
\* reaches CHUNK_SIZE, so that the splitter never goes below sentences.
SentenceLens == {100, 600}

Paragraphs == UNION {[1..n -> SentenceLens] : n \in 1..MaxSentences}

Texts == UNION {[1..n -> Paragraphs] : n \in 1..MaxParagraphs}

\* the sentence s of the paragraph p of a text, as a piece of that text
Piece(text, p, s) == [at |-> <<p, s>>, len |-> text[p][s]]

\* a split: the run of pieces between two separators
SplitOfParagraph(text, p) == [s \in 1..Len(text[p]) |-> Piece(text, p, s)]

RECURSIVE Sum(_)
Sum(lens) == IF lens = <<>> THEN 0 ELSE Head(lens) + Sum(Tail(lens))

\* len(split)
LenOf(split) == Sum([i \in 1..Len(split) |-> split[i].len])

RECURSIVE Concat(_)
Concat(seqs) == IF seqs = <<>> THEN <<>> ELSE Head(seqs) \o Concat(Tail(seqs))

\* total, the length of current_doc
Total(current_doc) == Sum([i \in 1..Len(current_doc) |-> LenOf(current_doc[i])])

\* the while loop of _merge_splits: drop splits from the front of current_doc
\* until it is no longer than the overlap and the split of length len fits
RECURSIVE Shrink(_, _)
Shrink(current_doc, len) ==
  LET total == Total(current_doc)
  IN IF \/ total > CHUNK_OVERLAP
        \/ (total + len > CHUNK_SIZE /\ total > 0)
     THEN Shrink(Tail(current_doc), len)
     ELSE current_doc

\* TextSplitter._merge_splits over splits[i..], with the separator "": docs
\* are the chunks made so far, current_doc the splits of the chunk being made
RECURSIVE merge_splits(_, _, _, _)
merge_splits(splits, i, current_doc, docs) ==
  IF i > Len(splits)
  THEN IF current_doc # <<>> THEN Append(docs, Concat(current_doc)) ELSE docs
  ELSE LET d == splits[i]
       IN IF Total(current_doc) + LenOf(d) > CHUNK_SIZE /\ Len(current_doc) > 0
          THEN merge_splits(splits, i + 1,
                            Append(Shrink(current_doc, LenOf(d)), d),
                            Append(docs, Concat(current_doc)))
          ELSE merge_splits(splits, i + 1, Append(current_doc, d), docs)

\* the sentences of a paragraph as splits
SentenceSplits(split) == [i \in 1..Len(split) |-> <<split[i]>>]

\* the loop of RecursiveCharacterTextSplitter._split_text over the
\* paragraphs splits[i..]: good_splits are merged, a paragraph that reaches
\* CHUNK_SIZE is split at its sentences, after the good splits before it are
\* flushed
RECURSIVE split_paragraphs(_, _, _, _)
split_paragraphs(splits, i, good_splits, final_chunks) ==
  IF i > Len(splits)
  THEN final_chunks \o merge_splits(good_splits, 1, <<>>, <<>>)
  ELSE IF LenOf(splits[i]) < CHUNK_SIZE
  THEN split_paragraphs(splits, i + 1, Append(good_splits, splits[i]),
                        final_chunks)
  ELSE split_paragraphs(splits, i + 1, <<>>,
         final_chunks \o merge_splits(good_splits, 1, <<>>, <<>>)
                      \o merge_splits(SentenceSplits(splits[i]), 1, <<>>, <<>>))

\* RecursiveCharacterTextSplitter.split_text: the chunks, each a run of pieces
split_text(text) ==
  split_paragraphs([p \in 1..Len(text) |-> SplitOfParagraph(text, p)], 1,
                   <<>>, <<>>)

\* a page of text has been loaded
InitChunker ==
  \E text \in Texts :
    LET store == VectorStore_init(EmptyDir, TRUE)
    IN /\ vector_db = store.vector_db
       /\ files = store.files
       /\ fresh = TRUE
       /\ chain = "unbuilt"
       /\ last = Outcome("load", NoValue, 0, FALSE, text, <<>>)

\* the chunker splits the text
SplitText ==
  /\ last.op = "load"
  /\ last' = Outcome("split_text", last.ret, Count, FALSE, split_text(last.ret),
                     <<>>)
  /\ UNCHANGED <<vector_db, files, chain, fresh>>

NextChunker == SplitText

SpecChunker == InitChunker /\ [][NextChunker]_vars

\* the pieces two chunks share
Shared(c, d) == Range(c) \cap Range(d)

\* C16: for a text split into chunks c1..cn (n > 1), each chunk c(i+1)
\* begins with text that repeats the end of ci (the trailing CHUNK_OVERLAP
\* characters, snapped to a separator), and no chunk exceeds CHUNK_SIZE.
C16_ChunksOverlap ==
  last.op = "split_text" =>
    /\ \A i \in 1..(Len(last.ret) - 1) :
         LET c == last.ret[i]
             d == last.ret[i + 1]
         IN /\ Shared(c, d) # {}
            /\ \E n \in 1..Len(c) :
                 /\ n <= Len(d)
                 /\ SubSeq(c, Len(c) - n + 1, Len(c)) = SubSeq(d, 1, n)
    /\ \A i \in 1..Len(last.ret) : LenOf(last.ret[i]) <= CHUNK_SIZE

-----------------------------------------------------------------------------
(* DocumentProcessor: batch ingestion, under SpecIngest *)

MaxFiles == 3         \* entries of the directory, or papers of the batch

\* the names os.listdir may return
Filenames == {"a.pdf", "B.PDF", "c.pdf", "notes.txt"}

\* str.lower
Lower(name) == IF name = "B.PDF" THEN "b.pdf" ELSE name

\* str.endswith('.pdf')
EndsWithPdf(name) == name \in {"a.pdf", "b.pdf", "c.pdf"}

\* os.path.splitext(os.path.basename(file_path))[0]
NameOf(filename) ==
  CASE filename = "a.pdf" -> "a"
    [] filename = "B.PDF" -> "B"
    [] filename = "c.pdf" -> "c"
    [] OTHER -> "notes"

directory_path == "d"

\* os.path.join(directory_path, filename)
Join(dir, filename) == dir \o "/" \o filename

ShortText == << <<100>> >>
LongText == << <<600, 600>> >>

\* what a file holds: pages of text, or something PyPDFLoader cannot read
Contents ==
  {[loads |-> FALSE, pages |-> <<>>],
   [loads |-> TRUE, pages |-> <<ShortText>>],
   [loads |-> TRUE, pages |-> <<LongText>>]}

\* a listing: distinct names, each with what the file holds
Listings ==
  {l \in UNION {[1..n -> [filename : Filenames, content : Contents]] :
                  n \in 0..MaxFiles} :
     \A i, j \in 1..Len(l) : l[i].filename = l[j].filename => i = j}

\* PyPDFLoader.load: one document per page, with source and page
PageDocs(file_path, pages) ==
  [i \in 1..Len(pages) |->
     [text |-> pages[i], metadata |-> ("source" :> file_path) @@ ("page" :> i - 1)]]

\* the loop that adds source and title where they are missing
WithBasicMetadata(doc, file_path, name) ==
  [doc EXCEPT !.metadata =
     doc.metadata
       @@ (IF "source" \in DOMAIN doc.metadata
           THEN <<>> ELSE ("source" :> file_path))
       @@ (IF "title" \in DOMAIN doc.metadata
           THEN <<>> ELSE ("title" :> name))]

\* TextSplitter.split_documents: the chunks of every document, each with the
\* metadata of its document
split_documents(documents) ==
  Concat([i \in 1..Len(documents) |->
            LET chunks == split_text(documents[i].text)
            IN [c \in 1..Len(chunks) |->
                  Document(Text(chunks[c], LenOf(chunks[c])),
                           documents[i].metadata)]])

Processed(raised, ret) == [raised |-> raised, ret |-> ret]

\* process_pdf without its try/except: a load that fails raises
process_pdf_raising(file_path, content) ==
  IF ~content.loads
  THEN Processed(TRUE, <<>>)
  ELSE LET name == NameOf(Basename(file_path))
           documents == PageDocs(file_path, content.pages)
       IN Processed(FALSE,
            split_documents([i \in 1..Len(documents) |->
                               WithBasicMetadata(documents[i], file_path, name)]))

\* DocumentProcessor.process_pdf: content is what the file at file_path holds
process_pdf(file_path, content) ==
  IF ~content.loads
  THEN Processed(FALSE, <<>>)
  ELSE LET name == NameOf(Basename(file_path))
           documents == PageDocs(file_path, content.pages)
       IN Processed(FALSE,
            split_documents([i \in 1..Len(documents) |->
                               WithBasicMetadata(documents[i], file_path, name)]))

\* the loop of process_directory over listing[i..]; an exception of
\* process_pdf would leave it
RECURSIVE process_files(_, _, _)
process_files(listing, i, all_documents) ==
  IF i > Len(listing)
  THEN Processed(FALSE, all_documents)
  ELSE IF EndsWithPdf(Lower(listing[i].filename))
  THEN LET file_path == Join(directory_path, listing[i].filename)
           documents == process_pdf(file_path, listing[i].content)
       IN IF documents.raised
          THEN Processed(TRUE, <<>>)
          ELSE process_files(listing, i + 1, all_documents \o documents.ret)
  ELSE process_files(listing, i + 1, all_documents)

\* DocumentProcessor.process_directory: listing is what os.listdir returns
process_directory(listing) == process_files(listing, 1, <<>>)

\* the loop of main (download-samples.py) over downloaded_files[i..]: db and
\* fs are the index and the directory of its VectorStore
RECURSIVE process_downloaded(_, _, _, _, _)
process_downloaded(downloaded_files, i, db, fs, env) ==
  IF i > Len(downloaded_files)
  THEN [raised |-> FALSE, vector_db |-> db, files |-> fs]
  ELSE LET file_path == Join(directory_path, downloaded_files[i].filename)
           documents == process_pdf(file_path, downloaded_files[i].content)
       IN IF documents.raised
          THEN [raised |-> TRUE, vector_db |-> db, files |-> fs]
          ELSE IF Len(documents.ret) > 0
          THEN process_downloaded(downloaded_files, i + 1,
                 add_documents_db(db, documents.ret, env.embedOk),
                 add_documents_files(fs, db, documents.ret, env.embedOk,
                                     env.saveOk),
                 env)
          ELSE process_downloaded(downloaded_files, i + 1, db, fs, env)

\* the directory has been listed
InitIngest ==
  \E listing \in Listings :
    LET store == VectorStore_init(EmptyDir, TRUE)
    IN /\ vector_db = store.vector_db
       /\ files = store.files
       /\ fresh = TRUE
       /\ chain = "unbuilt"
       /\ last = Outcome("listdir", NoValue, 0, FALSE, listing, <<>>)

ProcessDirectory ==
  LET r == process_directory(last.ret)
  IN /\ last.op = "listdir"
     /\ last' = Outcome("process_directory", last.ret, Count, r.raised, r.ret,
                        <<>>)
     /\ UNCHANGED <<vector_db, files, chain, fresh>>

\* the chunks a listing yields when every file is read
ChunksIn(listing) ==
  Sum([i \in 1..Len(listing) |->
         Sum([p \in 1..Len(listing[i].content.pages) |->
                Len(split_text(listing[i].content.pages[p]))])])

\* main of download-samples.py, from the processing of the downloaded papers
\* on; the downloaded papers are the listing
ProcessDownloaded ==
  \E env \in [embedOk : BOOLEAN, saveOk : BOOLEAN] :
    LET r == process_downloaded(last.ret, 1, vector_db, files, env)
    IN /\ last.op = "listdir"
       /\ Len(last.ret) > 0
       /\ Len(vector_db) + ChunksIn(last.ret) <= MaxEntries
       /\ vector_db' = r.vector_db
       /\ files' = r.files
       /\ fresh' = (fresh /\ vector_db' = vector_db)
       /\ last' = Outcome("main", last.ret, Count, r.raised, NoValue,
                          IF env.embedOk THEN <<"embed">> ELSE <<"embed!">>)
       /\ UNCHANGED chain

NextIngest ==
  \/ ProcessDirectory
  \/ ProcessDownloaded

SpecIngest == InitIngest /\ [][NextIngest]_vars

\* the file of a listing entry is one process_directory reads
IsPdf(entry) == EndsWithPdf(Lower(entry.filename))

\* the chunks of a listing entry that parses, none for one that does not
ChunksOfParsed(entry) ==
  IF entry.content.loads
  THEN process_pdf(Join(directory_path, entry.filename), entry.content).ret
  ELSE <<>>

\* C14: in batch ingestion (process_directory, and the per-file loop of main
\* in download-samples.py) a document that fails to parse contributes no
\* chunk and no exception, and every other document is still processed: the
\* result is the concatenation of the chunks of the documents that parse.
C14_FailedDocumentsAreSkipped ==
  /\ last.op = "process_directory" =>
       /\ ~last.raised
       /\ last.ret = Concat([i \in 1..Len(last.arg) |->
                               IF IsPdf(last.arg[i])
                               THEN ChunksOfParsed(last.arg[i]) ELSE <<>>])
  /\ last.op = "main" =>
       /\ ~last.raised
       /\ vector_db =
            <<PlaceholderDoc>>
              \o (IF "embed!" \in Range(last.calls) THEN <<>>
                  ELSE Concat([i \in 1..Len(last.arg) |->
                                 ChunksOfParsed(last.arg[i])]))

\* process_directory met a PDF that does not parse and, after it, one that
\* does, and returned chunks
C14_Witness ==
  /\ last.op = "process_directory"
  /\ \E i, j \in 1..Len(last.arg) :
       /\ i < j
       /\ IsPdf(last.arg[i]) /\ ~last.arg[i].content.loads
       /\ IsPdf(last.arg[j]) /\ last.arg[j].content.loads
  /\ Len(last.ret) > 1

-----------------------------------------------------------------------------
(* QAChain: the two retrievals of one answer_question, under SpecAnswering *)

\* a chain that takes its context from the compression retriever that
\* _setup_chain builds beside it
chain_retriever_compressed(db, question) == compression_retriever(db, question)

\* the retriever of the chain: vector_db.as_retriever(k = MAX_DOCUMENTS), an
\* unfiltered search of the index the VectorStore holds
chain_retriever(db, question) == faiss_search(db, question, MAX_DOCUMENTS)

\* what one answer_question has retrieved so far: the context the chain was
\* given, the documents of the citation search, and whether an add_documents
\* ran between the two
Retrievals(context, docs, text, inserted) ==
  [context |-> context, docs |-> docs, text |-> text, inserted |-> inserted]

\* an answer_question is between self.chain.invoke and the citation search
Answering == last.op = "chain.invoke"

\* answer_question up to the return of self.chain.invoke: the retriever of the
\* chain fetches the context and the generation service answers; a failure of
\* either ends the call in its except clause
ChainInvoke ==
  \E e \in AnswerEnvs :
    LET context == IF e.retrieverOk
                   THEN chain_retriever(vector_db, Question)
                   ELSE <<>>
        r == answer_question(vector_db, chain, Question, e)
    IN /\ chain = "ready"
       /\ ~Answering
       /\ e.searchOk
       /\ last' = IF e.retrieverOk /\ e.llmOk
                  THEN Outcome("chain.invoke",
                               Retrievals(context, <<>>, e.text, FALSE), Count,
                               FALSE, NoValue, <<"retriever", "llm">>)
                  ELSE Outcome("answer_question",
                               Retrievals(context, r.docs, e.text, FALSE),
                               Count, r.raised, r.ret, r.calls)
       /\ UNCHANGED <<vector_db, files, chain, fresh>>

\* the rest of answer_question: the citation search on the index as it is
\* now, the loop over its documents and the return
CitationSearch ==
  \E searchOk \in BOOLEAN, reason \in Reasons :
    LET e == [retrieverOk |-> TRUE, llmOk |-> TRUE, searchOk |-> searchOk,
              text |-> last.arg.text, reason |-> reason]
        r == answer_question(vector_db, chain, Question, e)
    IN /\ Answering
       /\ last' = Outcome("answer_question",
                          Retrievals(last.arg.context, r.docs, last.arg.text,
                                     last.arg.inserted),
                          Count, r.raised, r.ret, r.calls)
       /\ UNCHANGED <<vector_db, files, chain, fresh>>

\* add_documents of another session on the cached VectorStore while an
\* answer_question is between its two retrievals
InsertBetween ==
  \E documents \in RetrieverBatches, embedOk \in BOOLEAN :
    /\ Answering
    /\ Len(vector_db) + Len(documents) <= MaxEntries
    /\ vector_db' = add_documents_db(vector_db, documents, embedOk)
    /\ files' = add_documents_files(files, vector_db, documents, embedOk, TRUE)
    /\ fresh' = (fresh /\ vector_db' = vector_db)
    /\ last' = [last EXCEPT !.arg.inserted = TRUE]
    /\ UNCHANGED chain

\* add_documents while no answer_question is under way
InsertBefore == ~Answering /\ AddRetrievable

\* the sessions of the application on the components it caches
NextAnswering ==
  \/ NewQAChain
  \/ InsertBefore
  \/ ChainInvoke
  \/ InsertBetween
  \/ CitationSearch

SpecAnswering == Init /\ [][NextAnswering]_vars

\* the citation answer_question builds from a document
CitationOf(doc) ==
  LET source == Get(doc.metadata, "source", "Unknown")
  IN Citation(Get(doc.metadata, "title", Basename(source)), source,
              doc.page_content)

\* C22: when an answer_question has returned and no add_documents ran between
\* the retrieval inside the chain and the citation search, then the citation
\* search, if it succeeded, returned the very sequence of chunks the chain was
\* given as context, and every citation of the answer is the citation of a
\* chunk of that context; the two sequences differ only after an insert
\* between the two retrievals.
C22_CitationsComeFromTheContext ==
  (last.op = "answer_question" /\ ~last.arg.inserted) =>
    /\ "search" \in Range(last.calls) => last.arg.docs = last.arg.context
    /\ \A c \in Range(last.ret.sources) :
         \E doc \in Range(last.arg.context) : c = CitationOf(doc)

C22_Witness ==
  /\ last.op = "answer_question"
  /\ ~last.arg.inserted
  /\ "search" \in Range(last.calls)
  /\ Len(last.arg.context) >= 3
  /\ Len(last.ret.sources) >= 2

\* an insert between the two retrievals has made them differ
C22_InsertSeen ==
  /\ last.op = "answer_question"
  /\ last.arg.inserted
  /\ "search" \in Range(last.calls)
  /\ last.arg.docs # last.arg.context

====
